---- MODULE Spec2Model ----
(***************************************************************************)
(* A model of adcirc-to-ras: src/adcirc2hec_wind.py (AdcircMesh,           *)
(* AdcircResult, HecWindFile.write, adcirc2hec_wind_main), the call of     *)
(* write in src/batch_wind.py and main of src/adcirc2hec_surge.py.         *)
(*                                                                         *)
(* Numbers.  A finite floating-point value is modelled as an exact         *)
(* rational [n, d] in lowest terms with d > 0; the IEEE specials NaN,      *)
(* +infinity and -infinity are the records with d = 0.  Rounding is not    *)
(* modelled.  A text file is a sequence of lines,                          *)
(* a line the sequence of its whitespace-separated fields (str.split()),   *)
(* a field the number it parses to.                                        *)
(*                                                                         *)
(* The module holds several specifications over one set of variables:      *)
(*   SpecSanitize  lines 625-634 of write on drawn interpolation results   *)
(*   SpecGrid      lines 526-534 of write on drawn bounds and resolutions, *)
(*                 called from adcirc2hec_wind_main or from batch_wind.py  *)
(*   SpecReader    AdcircResult, both file forms, over one dataset         *)
(*   SpecMesh      AdcircMesh construction                                 *)
(*   Spec          HecWindFile.write, phase by phase                       *)
(*   SpecSurge     adcirc2hec_surge.main, argument checks and extraction   *)
(* A specification leaves the variables of the others at Idle.             *)
(***************************************************************************)
EXTENDS Integers, Sequences, FiniteSets, TLC

VARIABLES
    \* SpecSanitize: one step's interpolated arrays (raw), the arrays as the
    \* rules change them (result), the slice written (out), a second pass (again)
    san,
    \* SpecGrid: write()'s arguments (args) and the axes it builds (xx, yy)
    grid,
    \* SpecReader: one dataset stored in both forms (in, file, container), an
    \* AdcircResult on each (ascii, netcdf) and what their get calls returned
    rd,
    \* SpecMesh: an AdcircMesh under construction: the file (filename, content),
    \* the statement reached (pc), the error raised (err), the locals of
    \* __read_mesh_ascii (n_nodes, n_elements) and the object's fields (self)
    mesh,
    \* Spec: one call of HecWindFile.write: its arguments and files (args), the
    \* statement reached (pc), the error raised and the statement that raised it
    \* (err, at), the locals of write (dataset, mesh, reference_time, xx, yy, i,
    \* wind_raw, timestep_now, result), the output container (out) and the loop
    \* statements executed so far (log)
    run,
    \* SpecSurge: one run of adcirc2hec_surge.main: the parsed arguments and the
    \* point files found (args, files), the statement reached (pc), the loop
    \* position (k), what was printed on failure (message), the Extract objects
    \* constructed (extracts) and the output files written (written)
    surge

vars == <<san, grid, rd, mesh, run, surge>>

Idle == "idle"
None == "None"

(***************************************************************************)
(* Exact rationals                                                         *)
(***************************************************************************)
Abs(i) == IF i < 0 THEN -i ELSE i

RECURSIVE Gcd(_, _)
Gcd(a, b) == IF b = 0 THEN a ELSE Gcd(b, a % b)

\* n/d in lowest terms, d > 0 (d # 0 required)
Rat(n, d) ==
    LET g == Gcd(Abs(n), Abs(d))
        s == IF d < 0 THEN -1 ELSE 1
    IN  [n |-> (s * n) \div g, d |-> (s * d) \div g]

RInt(i)     == [n |-> i, d |-> 1]
RAdd(a, b)  == Rat(a.n * b.d + b.n * a.d, a.d * b.d)
RSub(a, b)  == Rat(a.n * b.d - b.n * a.d, a.d * b.d)
RMul(a, b)  == Rat(a.n * b.n, a.d * b.d)
RDiv(a, b)  == Rat(a.n * b.d, a.d * b.n)
RLe(a, b)   == a.n * b.d <= b.n * a.d
RLt(a, b)   == a.n * b.d < b.n * a.d
\* Python int(): truncation toward zero
RTrunc(a)   == IF a.n >= 0 THEN a.n \div a.d ELSE -((-a.n) \div a.d)
RFloor(a)   == a.n \div a.d

\* the IEEE specials: the records with d = 0
NaN  == [n |-> 0, d |-> 0]
PInf == [n |-> 1, d |-> 0]
NInf == [n |-> -1, d |-> 0]
Specials == {NaN, PInf, NInf}
IsFinite(v) == v \notin Specials

(***************************************************************************)
(* Sanitize: write(), lines 625-629                                        *)
(***************************************************************************)
\* the dry/invalid-node threshold of lines 626-627
SanitizeThreshold == -100
\* the replacement value of lines 626-629
Zero == RInt(0)

\* v <= t as numpy compares: False for NaN, by order for the infinities
FloatLe(v, t) ==
    CASE v = NaN  -> FALSE
      [] v = NInf -> TRUE
      [] v = PInf -> FALSE
      [] OTHER    -> RLe(v, t)

\* a bug that would keep the threshold value itself: < instead of <=
ForceLowStrict(a) ==
    [c \in DOMAIN a |->
        IF a[c] \notin {NaN, PInf} /\ (a[c] = NInf \/ RLt(a[c], RInt(SanitizeThreshold)))
        THEN Zero ELSE a[c]]

\* result[result <= -100] = 0.0
ForceLow(a) ==
    [c \in DOMAIN a |->
        IF FloatLe(a[c], RInt(SanitizeThreshold)) THEN Zero ELSE a[c]]

\* a bug that would turn NaN into the simulator's sentinel instead of 0.0
NanToSentinel(a) ==
    [c \in DOMAIN a |->
        CASE a[c] = NaN -> RInt(-99999)
          [] a[c] \in {PInf, NInf} -> Zero
          [] OTHER -> a[c]]

\* np.nan_to_num(result, copy=False, nan=0.0, posinf=0.0, neginf=0.0)
NanToNum(a) ==
    [c \in DOMAIN a |-> IF a[c] \in Specials THEN Zero ELSE a[c]]

\* the two rules in the order of the code
Sanitize(a) == NanToNum(ForceLow(a))

\* ---- SpecSanitize ----
\* cells of one output slice
SanCells == 1
\* finite results drawn around the threshold, as multiples of one half
SanSpread == 1

SanValues ==
    Specials
    \cup { Rat(2 * SanitizeThreshold + k, 2) : k \in (-2 * SanSpread)..(2 * SanSpread) }
    \cup { RInt(0), RInt(5), RInt(-99999) }

Channels == {"wind_u", "wind_v"}

SanInit ==
    /\ san \in [pc : {"interpolated"},
                raw : [Channels -> [1..SanCells -> SanValues]],
                result : {<<>>}, out : {<<>>}, again : {<<>>}]
    /\ grid = Idle
    /\ rd = Idle
    /\ mesh = Idle
    /\ run = Idle
    /\ surge = Idle

\* lines 626-627, on the arrays of lines 622-623
SanForceLow ==
    /\ san.pc = "interpolated"
    /\ san' = [san EXCEPT !.pc = "forced",
                          !.result = [ch \in Channels |-> ForceLow(san.raw[ch])]]
    /\ UNCHANGED <<grid, rd, mesh, run, surge>>

\* lines 628-629
SanNanToNum ==
    /\ san.pc = "forced"
    /\ san' = [san EXCEPT !.pc = "sanitized",
                          !.result = [ch \in Channels |-> NanToNum(san.result[ch])]]
    /\ UNCHANGED <<grid, rd, mesh, run, surge>>

\* lines 633-634: the slice written is result.data
SanWrite ==
    /\ san.pc = "sanitized"
    /\ san' = [san EXCEPT !.pc = "written", !.out = san.result]
    /\ UNCHANGED <<grid, rd, mesh, run, surge>>

\* the two rules applied to an already sanitized slice
SanAgain ==
    /\ san.pc = "written"
    /\ san' = [san EXCEPT !.pc = "twice",
                          !.again = [ch \in Channels |-> Sanitize(san.result[ch])]]
    /\ UNCHANGED <<grid, rd, mesh, run, surge>>

SanNext == SanForceLow \/ SanNanToNum \/ SanWrite \/ SanAgain

C9_SanitizeIdempotent ==
    san.pc = "twice" => san.again = san.result

\* C9's case: the second pass ran on a slice whose cells were -infinity and NaN
C9_Witness ==
    /\ san.pc = "twice"
    /\ san.raw["wind_u"][1] = NInf
    /\ san.raw["wind_v"][1] = NaN

(***************************************************************************)
(* BuildGrid: write(), lines 526-534                                       *)
(***************************************************************************)
\* a bug that would drop the "+ 1" of the point count
AxisNumNoPlusOne(lo, hi, res) == RTrunc(RDiv(RSub(hi, lo), res))

\* int((hi - lo) / resolution + 1)
AxisNum(lo, hi, res) == RTrunc(RAdd(RDiv(RSub(hi, lo), res), RInt(1)))

\* np.linspace(start, stop, num) with endpoint=True, for num >= 0:
\* start + k * (stop - start) / (num - 1), the last point set to stop;
\* the single point start when num = 1
Linspace(start, stop, num) ==
    [k \in 1..num |->
        IF num = 1 THEN start
        ELSE IF k = num THEN stop
        ELSE RAdd(start, RMul(RInt(k - 1), RDiv(RSub(stop, start), RInt(num - 1))))]

\* ---- SpecGrid ----
\* coordinates are drawn from the multiples of 1/2 in [-GridMax/2, GridMax/2]
GridMax == 2
\* resolutions are drawn from 1/2, 2/2, ..., GridResMax/2
GridResMax == 3

GridCoords == { Rat(k, 2) : k \in (-GridMax)..GridMax }
GridRes    == { Rat(k, 2) : k \in 1..GridResMax }

\* a caller that would hand the bounds on in the order it got them
MainBoundsAsGiven(bounds) ==
    [x_min |-> bounds[1], y_min |-> bounds[2], x_max |-> bounds[3], y_max |-> bounds[4]]

RMin(a, b) == IF RLe(a, b) THEN a ELSE b
RMax(a, b) == IF RLe(a, b) THEN b ELSE a

\* adcirc2hec_wind_main, lines 683-691: --bounds x0 y0 x1 y1
MainBounds(bounds) ==
    [x_min |-> RMin(bounds[1], bounds[3]), y_min |-> RMin(bounds[2], bounds[4]),
     x_max |-> RMax(bounds[1], bounds[3]), y_max |-> RMax(bounds[2], bounds[4])]

\* batch_wind.py, lines 30-49: the four values go to write under the names
\* x_min, y_min, x_max, y_max as they are
BatchBounds(bounds) ==
    [x_min |-> bounds[1], y_min |-> bounds[2], x_max |-> bounds[3], y_max |-> bounds[4]]

NoArgs ==
    [x_min |-> Zero, x_max |-> Zero, y_min |-> Zero, y_max |-> Zero, resolution |-> Zero]

\* the four bounding values (x, y, x, y) a caller holds, and the caller: the
\* command-line entry point or a script that calls write itself
GridInit ==
    /\ grid \in [pc : {"call"}, caller : {"main", "batch"},
                 bounds : [1..4 -> GridCoords], resolution : GridRes,
                 args : {NoArgs},
                 xx : {<<>>}, yy : {<<>>}, err : {"none"}]
    /\ san = Idle
    /\ rd = Idle
    /\ mesh = Idle
    /\ run = Idle
    /\ surge = Idle

\* lines 683-694: r.write(args.resolution, x_min, y_min, x_max, y_max)
GridMain ==
    /\ grid.pc = "call"
    /\ grid.caller = "main"
    /\ LET b == MainBounds(grid.bounds)
       IN  grid' = [grid EXCEPT !.pc = "args",
                       !.args = [x_min |-> b.x_min, x_max |-> b.x_max,
                                 y_min |-> b.y_min, y_max |-> b.y_max,
                                 resolution |-> grid.resolution]]
    /\ UNCHANGED <<san, rd, mesh, run, surge>>

\* batch_wind.py, line 49: r.write(resolution, x_min, y_min, x_max, y_max)
GridBatch ==
    /\ grid.pc = "call"
    /\ grid.caller = "batch"
    /\ LET b == BatchBounds(grid.bounds)
       IN  grid' = [grid EXCEPT !.pc = "args",
                       !.args = [x_min |-> b.x_min, x_max |-> b.x_max,
                                 y_min |-> b.y_min, y_max |-> b.y_max,
                                 resolution |-> grid.resolution]]
    /\ UNCHANGED <<san, rd, mesh, run, surge>>

\* line 527; np.linspace raises ValueError for a negative num
GridXX ==
    /\ grid.pc = "args"
    /\ LET num == AxisNum(grid.args.x_min, grid.args.x_max, grid.args.resolution)
       IN  grid' = IF num < 0
                   THEN [grid EXCEPT !.pc = "error", !.err = "ValueError"]
                   ELSE [grid EXCEPT !.pc = "xx",
                             !.xx = Linspace(grid.args.x_min, grid.args.x_max, num)]
    /\ UNCHANGED <<san, rd, mesh, run, surge>>

\* line 528
GridYY ==
    /\ grid.pc = "xx"
    /\ LET num == AxisNum(grid.args.y_min, grid.args.y_max, grid.args.resolution)
       IN  grid' = IF num < 0
                   THEN [grid EXCEPT !.pc = "error", !.err = "ValueError"]
                   ELSE [grid EXCEPT !.pc = "grid",
                             !.yy = Linspace(grid.args.y_min, grid.args.y_max, num)]
    /\ UNCHANGED <<san, rd, mesh, run, surge>>

GridNext == GridMain \/ GridBatch \/ GridXX \/ GridYY

\* an axis has floor((hi - lo) / res) + 1 evenly spaced points starting at lo
AxisShape(axis, lo, hi, res) ==
    /\ Len(axis) = RFloor(RDiv(RSub(hi, lo), res)) + 1
    /\ axis[1] = lo
    /\ \A k \in 1..(Len(axis) - 2) :
           RSub(axis[k + 1], axis[k]) = RSub(axis[k + 2], axis[k + 1])

AxisOf(lo, hi, res) ==
    LET num == AxisNum(lo, hi, res)
    IN  IF num < 0 THEN [err |-> "ValueError", axis |-> <<>>]
        ELSE [err |-> "none", axis |-> Linspace(lo, hi, num)]

\* the grid was built, or building it raised
GridDone == grid.pc \in {"grid", "error"}

\* the grid is the one the four values give when the two x values and the
\* two y values are taken in the order xs, ys ("given" or "swapped")
SameGridAs(caller, xs, ys) ==
    LET b  == grid.bounds
        sw == <<IF xs = "given" THEN b[1] ELSE b[3], IF ys = "given" THEN b[2] ELSE b[4],
                IF xs = "given" THEN b[3] ELSE b[1], IF ys = "given" THEN b[4] ELSE b[2]>>
        a  == IF caller = "main" THEN MainBounds(sw) ELSE BatchBounds(sw)
        x  == AxisOf(a.x_min, a.x_max, grid.resolution)
        y  == AxisOf(a.y_min, a.y_max, grid.resolution)
    IN  IF x.err # "none" \/ y.err # "none"
        THEN grid.pc = "error"
        ELSE grid.pc = "grid" /\ grid.xx = x.axis /\ grid.yy = y.axis

\* C15 as stated: whoever calls write, the grid built from four bounding
\* values is the grid built from the same values with the two x values, the
\* two y values or both given in the other order.
C15_AnyCaller ==
    GridDone =>
        \A xs, ys \in {"given", "swapped"} : SameGridAs(grid.caller, xs, ys)

\* C15 for the caller that resolves min and max: through the command-line
\* entry point the grid does not depend on the order of the two x values or of
\* the two y values, and write is given x_min <= x_max and y_min <= y_max. A
\* caller of write itself gets the grid of the values in the order it gave.
C15_MainResolves ==
    /\ (GridDone /\ grid.caller = "main") =>
           /\ \A xs, ys \in {"given", "swapped"} : SameGridAs("main", xs, ys)
           /\ RLe(grid.args.x_min, grid.args.x_max)
           /\ RLe(grid.args.y_min, grid.args.y_max)
           /\ grid.pc = "grid"
    /\ (GridDone /\ grid.caller = "batch") => SameGridAs("batch", "given", "given")

\* C15's case: the entry point was given x bounds 1, 0 and built the axis 0, 1/2, 1
C15_Witness ==
    /\ grid.pc = "grid"
    /\ grid.caller = "main"
    /\ grid.bounds[1] = RInt(1) /\ grid.bounds[3] = RInt(0)
    /\ grid.resolution = Rat(1, 2)
    /\ grid.xx = <<RInt(0), Rat(1, 2), RInt(1)>>

(***************************************************************************)
(* AdcircResult                                                            *)
(***************************************************************************)
\* self.__VARIABLE_NAMES, lines 235-240
VARIABLE_NAMES == <<"zeta", "zeta_max", "windx", "windy">>

Min(a, b) == IF a <= b THEN a ELSE b

\* f.readline().split() at line position pos: the empty list at end of file
ReadLine(lines, pos) == IF pos <= Len(lines) THEN lines[pos] ELSE <<>>
\* the position after k readline calls from pos
Advance(lines, pos, k) == Min(pos + k, Len(lines) + 1)

\* a bug that would leave out the seek of line 303: the stream is left after
\* the first record header
AsciiInitializeNoSeek(lines) ==
    LET metadata            == ReadLine(lines, 2)
        first_record_header == ReadLine(lines, 3)
    IN  IF Len(metadata) < 5 \/ Len(first_record_header) < 2
        THEN [err |-> "IndexError"]
        ELSE [err |-> "none",
              file_format  |-> "ascii",
              pos          |-> Advance(lines, 1, 3),
              n_time_steps |-> metadata[1],
              n_datasets   |-> metadata[5],
              n_nodes      |-> metadata[2],
              dt           |-> RMul(RInt(metadata[4]),
                                    Rat(first_record_header[1], first_record_header[2])),
              variables    |-> <<>>]

\* a bug that would take the channel count from the 3rd field of line 2
AsciiInitializeThirdField(lines) ==
    LET metadata            == ReadLine(lines, 2)
        header_pos          == Advance(lines, 1, 2)
        first_record_header == ReadLine(lines, header_pos)
    IN  IF Len(metadata) < 5 \/ Len(first_record_header) < 2
        THEN [err |-> "IndexError"]
        ELSE [err |-> "none",
              file_format  |-> "ascii",
              pos          |-> header_pos,
              n_time_steps |-> metadata[1],
              n_datasets   |-> metadata[3],
              n_nodes      |-> metadata[2],
              dt           |-> RMul(RInt(metadata[4]),
                                    Rat(first_record_header[1], first_record_header[2])),
              variables    |-> <<>>]

\* __initialize_ascii, lines 298-314. The position left is header_pos (line
\* 303 seeks back over the first record header read at line 302).
AsciiInitialize(lines) ==
    LET metadata            == ReadLine(lines, 2)
        header_pos          == Advance(lines, 1, 2)
        first_record_header == ReadLine(lines, header_pos)
    IN  IF Len(metadata) < 5 \/ Len(first_record_header) < 2
        THEN [err |-> "IndexError"]
        ELSE IF first_record_header[2] = 0
        THEN [err |-> "ZeroDivisionError"]
        ELSE [err |-> "none",
              file_format  |-> "ascii",
              pos          |-> header_pos,
              n_time_steps |-> metadata[1],
              n_datasets   |-> metadata[5],
              n_nodes      |-> metadata[2],
              dt           |-> RMul(RInt(metadata[4]),
                                    Rat(first_record_header[1], first_record_header[2])),
              variables    |-> <<>>]

\* a bug that would read every unrecognised header as a dense block
HeaderKindLenient(header) ==
    IF Len(header) = 4 THEN "sparse" ELSE "dense"

\* the branches of lines 419-427
HeaderKind(header) ==
    IF Len(header) = 2 THEN "dense"
    ELSE IF Len(header) = 4 THEN "sparse"
    ELSE "unknown"

\* __get_ascii, lines 418-435: the reader after the call (self), the error
\* raised if any, the locals n_nodes (nrows) and default_value (fill), and
\* the array returned
AsciiGet(self, lines) ==
    LET header == ReadLine(lines, self.pos)
        first  == Advance(lines, self.pos, 1)
        kind   == HeaderKind(header)
        nrows  == IF kind = "sparse" THEN header[3] ELSE self.n_nodes
        fill   == IF kind = "sparse" THEN RInt(header[4]) ELSE Zero
        \* rows i whose line has no field j+1 for some j < n_datasets
        short  == { i \in 1..nrows :
                      Len(ReadLine(lines, first + i - 1)) < self.n_datasets + 1 }
        firstShort == CHOOSE i \in short : \A k \in short : i <= k
    IN  IF kind = "unknown"
        THEN [self |-> [self EXCEPT !.pos = first],
              err |-> "Unknown header format",
              nrows |-> 0, fill |-> Zero, data |-> <<>>]
        ELSE IF nrows < 0       \* np.full refuses a negative dimension
        THEN [self |-> [self EXCEPT !.pos = first],
              err |-> "ValueError",
              nrows |-> nrows, fill |-> fill, data |-> <<>>]
        ELSE IF short # {}
        THEN [self |-> [self EXCEPT !.pos = Advance(lines, first, firstShort)],
              err |-> "IndexError",
              nrows |-> nrows, fill |-> fill, data |-> <<>>]
        ELSE [self |-> [self EXCEPT !.pos = Advance(lines, first, nrows)],
              err |-> "none",
              nrows |-> nrows, fill |-> fill,
              data |-> [j \in 1..self.n_datasets |->
                          [i \in 1..nrows |-> RInt(lines[first + i - 1][j + 1])]]]

\* a variable of the container with a time dimension: zeta_max is (node)
HasTimeDim(v) == v # "zeta_max"

\* a bug that would list the channels in the reverse of the registry's order
NetcdfInitializeReversed(container) ==
    LET n == Len(VARIABLE_NAMES)
        variables == SelectSeq([k \in 1..n |-> VARIABLE_NAMES[n + 1 - k]],
                               LAMBDA vv : vv \in container.variables)
    IN  [err |-> "none",
         file_format  |-> "netcdf",
         pos          |-> 0,
         n_time_steps |-> container.time,
         n_datasets   |-> Len(variables),
         n_nodes      |-> container.node,
         dt           |-> Zero,
         variables    |-> variables,
         ref_time     |-> container.units]

\* __initialize_netcdf, lines 325-334
NetcdfInitialize(container) ==
    LET variables == SelectSeq(VARIABLE_NAMES, LAMBDA vv : vv \in container.variables)
    IN  [err |-> "none",
         file_format  |-> "netcdf",
         pos          |-> 0,
         n_time_steps |-> container.time,
         n_datasets   |-> Len(variables),
         n_nodes      |-> container.node,
         dt           |-> Zero,
         variables    |-> variables,
         ref_time     |-> container.units]

\* __get_netcdf, lines 447-457; container.data[v] is the variable's array,
\* (time, node) or (node)
NetcdfGet(self, container, index) ==
    LET Bad(v) ==
            IF self.n_time_steps > 1
            THEN \/ ~HasTimeDim(v)     \* [index] yields a scalar, [:] fails
                 \/ index >= container.time
            ELSE FALSE
        Row(v) ==
            IF self.n_time_steps > 1 THEN container.data[v][index + 1]
            ELSE IF HasTimeDim(v) THEN container.data[v][1]
            ELSE container.data[v]
        \* the records the call reads
        read == IF self.n_time_steps > 1 THEN {index} ELSE 0..(container.time - 1)
    IN  IF self.n_datasets > 0 /\ read \cap container.damaged # {}
        THEN [err |-> "RuntimeError", data |-> <<>>]   \* the library's read error
        ELSE IF \E i \in 1..self.n_datasets : Bad(self.variables[i])
        THEN [err |-> "IndexError", data |-> <<>>]
        ELSE [err |-> "none",
              data |-> [i \in 1..self.n_datasets |->
                          [n \in 1..self.n_nodes |-> RInt(Row(self.variables[i])[n])]]]

\* a bug that would count the time from the blocks read so far
GetTimeFromStream(self, content, index) ==
    IF self.file_format = "netcdf"
    THEN RInt(content.times[index + 1])
    ELSE RMul(RInt(self.pos - 3), self.dt)

\* get_time(index), lines 386-389, in seconds
GetTime(self, content, index) ==
    IF self.file_format = "netcdf"
    THEN RInt(content.times[index + 1])
    ELSE RMul(RInt(index), self.dt)

\* ---- the mesh the datasets are computed on ----
\* node n of a strip of triangles two units wide: (0,0), (2,0), (0,2), (2,2), ...
MeshX(n) == 2 * ((n - 1) % 2)
MeshY(n) == 2 * ((n - 1) \div 2)
MeshDepth(n) == 10 * n
\* element e joins nodes e, e+1, e+2 (1-based, as the files store them)
MeshElement(e) == <<e, e + 1, e + 2>>

\* ---- the dataset of SpecReader, stored in both forms ----
\* steps of the longest dataset
MaxSteps == 2
\* mesh nodes of the dataset
NNodes == 3
\* get calls made on the sequential reader
MaxCalls == 3

\* the simulator's dry-node value, the fill value of its sparse blocks
Dry == -99999
Seeds == {1, 2}
\* the registry names a container holds
Containers ==
    { {"windx", "windy"}, {"zeta"}, {"zeta", "windx", "windy"},
      {"zeta_max", "windx", "windy"} }
\* output every nspool steps of dt seconds
Spool == [nspool |-> 4, dt |-> 900]

ChanId(v) == CHOOSE k \in 1..Len(VARIABLE_NAMES) : VARIABLE_NAMES[k] = v

\* the value of variable v at step s (from 0) and node n (from 1): every
\* other step has a dry node, every other value is its own
Field(seed, s, v, n) ==
    IF (seed + s) % 2 = 1 /\ (seed + s + n) % 3 = 0 THEN Dry
    ELSE 100 * seed + 20 * s + 4 * ChanId(v) + n

\* the channels of the dataset, in the order both forms store them
DatasetChannels(names) == SelectSeq(VARIABLE_NAMES, LAMBDA v : v \in names)

\* block s of the sequential form: its header line and its data lines.
\* "dense": (time, it) and a line per node; "sparse": (time, it, count, fill)
\* and a line per node that differs from fill; "bad": a 3-field header.
AsciiBlock(in, s) ==
    LET chans  == DatasetChannels(in.names)
        time   == (s + 1) * Spool.nspool * Spool.dt
        it     == (s + 1) * Spool.nspool
        Row(n) == <<n>> \o [j \in 1..Len(chans) |-> Field(in.seed, s, chans[j], n)]
        wet    == SelectSeq([n \in 1..NNodes |-> n],
                            LAMBDA n : Field(in.seed, s, chans[1], n) # Dry)
        kind   == in.enc[s + 1]
    IN  IF kind = "sparse"
        THEN [header |-> <<time, it, Len(wet), Dry>>,
              rows   |-> [k \in 1..Len(wet) |-> Row(wet[k])]]
        ELSE [header |-> IF kind = "dense" THEN <<time, it>> ELSE <<time, it, NNodes>>,
              rows   |-> [n \in 1..NNodes |-> Row(n)]]

RECURSIVE AsciiBlocks(_, _)
AsciiBlocks(in, s) ==
    IF s >= in.n_steps THEN <<>>
    ELSE <<AsciiBlock(in, s).header>> \o AsciiBlock(in, s).rows \o AsciiBlocks(in, s + 1)

\* the sequential form: title, (n_steps, n_nodes, dt*nspool, nspool, n_channels), blocks
AsciiFile(in) ==
    <<  <<0>>,
        <<in.n_steps, NNodes, Spool.dt * Spool.nspool, Spool.nspool,
          Len(DatasetChannels(in.names))>> >>
    \o AsciiBlocks(in, 0)

\* the indexed form of the same dataset, which also holds the mesh; damaged
\* is the set of time records the library fails to read
NetcdfContainer(in) ==
    [variables |-> in.names \cup {"x", "y", "element", "depth", "time"},
     time      |-> in.n_steps,
     node      |-> NNodes,
     units     |-> in.units,
     times     |-> [t \in 1..in.n_steps |-> t * Spool.nspool * Spool.dt],
     damaged   |-> in.damaged,
     kind      |-> "netcdf",
     x         |-> [n \in 1..NNodes |-> MeshX(n)],
     y         |-> [n \in 1..NNodes |-> MeshY(n)],
     element   |-> [e \in 1..(NNodes - 2) |-> MeshElement(e)],
     depth     |-> [n \in 1..NNodes |-> MeshDepth(n)],
     data      |-> [v \in in.names |->
                      IF HasTimeDim(v)
                      THEN [t \in 1..in.n_steps |->
                              [n \in 1..NNodes |-> Field(in.seed, t - 1, v, n)]]
                      ELSE [n \in 1..NNodes |-> Field(in.seed, 0, v, n)]]]

\* the units text of the time variable, as units.split(" ")
Units == <<"seconds", "since", "2022-09-19", "06:00:00">>

ReaderInputs ==
    UNION { [seed : Seeds, n_steps : {k}, names : Containers,
             enc : [1..k -> {"dense", "sparse", "bad"}],
             units : {Units}, damaged : {{}}] : k \in 1..MaxSteps }

\* ---- SpecReader ----
\* what the last get_time call on the sequential reader was given and returned
NoTime == [index |-> -1, seconds |-> Zero]

NoCall == [err |-> "none", data |-> <<>>]

ReaderInit ==
    /\ san = Idle
    /\ grid = Idle
    /\ mesh = Idle
    /\ run = Idle
    /\ surge = Idle
    /\ \E in \in ReaderInputs :
         rd = [in |-> in, file |-> AsciiFile(in), container |-> NetcdfContainer(in),
               a_pc |-> "new", ascii |-> [err |-> "none", pos |-> 1],
               a_index |-> 0, a_hist |-> <<>>, a_time |-> NoTime,
               n_pc |-> "new", netcdf |-> [err |-> "none"],
               n_called |-> {}, n_ret |-> [i \in 0..(MaxSteps - 1) |-> NoCall]]

\* AdcircResult(filename) on the sequential form, lines 241-250
ReaderNewAscii ==
    /\ rd.a_pc = "new"
    /\ rd' = [rd EXCEPT !.a_pc = "ready", !.ascii = AsciiInitialize(rd.file)]
    /\ UNCHANGED <<san, grid, mesh, run, surge>>

\* get(index) on the sequential reader, lines 402-405: the index is dropped.
\* a_index is the index asked for; a_hist keeps, per call, the stream position
\* the call started from and what it returned or raised.
ReaderGetAscii ==
    /\ rd.a_pc = "ready"
    /\ rd.ascii.err = "none"
    /\ Len(rd.a_hist) < MaxCalls
    /\ \E index \in 0..(MaxSteps - 1) :
         LET r == AsciiGet(rd.ascii, rd.file)
         IN  rd' = [rd EXCEPT !.ascii = r.self,
                              !.a_index = index,
                              !.a_hist = Append(@, [from |-> rd.ascii.pos,
                                                    err |-> r.err, nrows |-> r.nrows,
                                                    fill |-> r.fill, data |-> r.data])]
    /\ UNCHANGED <<san, grid, mesh, run, surge>>

\* get_time(index) on the sequential reader, lines 386-389; one call is
\* followed, made at any point
ReaderGetTimeAscii ==
    /\ rd.a_pc = "ready"
    /\ rd.ascii.err = "none"
    /\ rd.a_time = NoTime
    /\ \E index \in 0..(MaxSteps - 1) :
         rd' = [rd EXCEPT !.a_time = [index   |-> index,
                                      seconds |-> GetTime(rd.ascii, rd.file, index)]]
    /\ UNCHANGED <<san, grid, mesh, run, surge>>

\* AdcircResult(filename) on the indexed form
ReaderNewNetcdf ==
    /\ rd.n_pc = "new"
    /\ rd' = [rd EXCEPT !.n_pc = "ready", !.netcdf = NetcdfInitialize(rd.container)]
    /\ UNCHANGED <<san, grid, mesh, run, surge>>

\* get(index) on the indexed reader, lines 402-403
ReaderGetNetcdf ==
    /\ rd.n_pc = "ready"
    /\ \E index \in 0..(MaxSteps - 1) :
         /\ index \notin rd.n_called
         /\ rd' = [rd EXCEPT !.n_called = @ \cup {index},
                              !.n_ret[index] = NetcdfGet(rd.netcdf, rd.container, index)]
    /\ UNCHANGED <<san, grid, mesh, run, surge>>

ReaderNext ==
    \/ ReaderNewAscii \/ ReaderGetAscii \/ ReaderGetTimeAscii
    \/ ReaderNewNetcdf \/ ReaderGetNetcdf

SpecReader == ReaderInit /\ [][ReaderNext]_vars

\* the line at which block k (from 1) of the file starts: after the title, the
\* metadata line and the header and data lines of the blocks before it
RECURSIVE BlockStart(_, _)
BlockStart(in, k) ==
    IF k = 1 THEN 3
    ELSE BlockStart(in, k - 1) + 1 + Len(AsciiBlock(in, k - 2).rows)

\* the first k calls of the sequential reader all returned a snapshot
Returned(k) == \A c \in 1..k : rd.a_hist[c].err = "none"

\* C3: construction of the sequential reader consumes no data block (the
\* stream is left at the first block header); every get call that returns in a
\* run without a failed call started at the header of block k, ended at the
\* header of block k + 1 and returned the rows of block k, for the k-th call
\* and whatever index it was given; the stream position never decreases.
C3_Blocks ==
    /\ (rd.a_pc = "ready" /\ rd.ascii.err = "none" /\ rd.a_hist = <<>>) =>
           rd.ascii.pos = BlockStart(rd.in, 1)
    /\ \A k \in 1..Len(rd.a_hist) :
           Returned(k) =>
               LET b == AsciiBlock(rd.in, k - 1)
               IN  /\ k <= rd.in.n_steps
                   /\ rd.a_hist[k].from = BlockStart(rd.in, k)
                   /\ (k = Len(rd.a_hist) => rd.ascii.pos = BlockStart(rd.in, k + 1))
                   /\ rd.a_hist[k].data =
                          [j \in 1..Len(DatasetChannels(rd.in.names)) |->
                              [i \in 1..Len(b.rows) |-> RInt(b.rows[i][j + 1])]]

C3_SequentialReads ==
    /\ []C3_Blocks
    /\ [][rd.a_pc = "ready" => rd'.ascii.pos >= rd.ascii.pos]_vars

\* C3's case: the second call was given index 0 and returned block 2
C3_Witness ==
    /\ Len(rd.a_hist) = 2 /\ Returned(2)
    /\ rd.in.n_steps = 2
    /\ rd.a_index = 0
    /\ rd.a_hist[2].from = BlockStart(rd.in, 2)
    /\ rd.a_hist[2].data # rd.a_hist[1].data

\* C4: for a dataset stored in both forms without a malformed block, get(i) on
\* the indexed reader and the (i+1)-th read-next call on the sequential reader
\* return the same matrix: same channel count, same node count, same values.
C4_FormsAgree ==
    \A i \in 0..(rd.in.n_steps - 1) :
        ( /\ \A s \in 1..rd.in.n_steps : rd.in.enc[s] # "bad"
          /\ i \in rd.n_called /\ rd.n_ret[i].err = "none"
          /\ Len(rd.a_hist) >= i + 1 /\ Returned(i + 1) )
        => rd.a_hist[i + 1].data = rd.n_ret[i].data

\* C5: what read-next makes of the block header it reads. 2 fields: a dense
\* block of node_count rows with fill value 0.0; 4 fields: a sparse block whose
\* row count and fill value are the 3rd and 4th fields; any other number of
\* fields, the empty line at end of file included: the error "Unknown header
\* format" and no snapshot. A block that is read makes the returned matrix
\* that many columns wide and moves the stream past the header and the rows.
C5_HeaderShapes ==
    \A k \in 1..Len(rd.a_hist) :
        LET call   == rd.a_hist[k]
            header == IF call.from <= Len(rd.file) THEN rd.file[call.from] ELSE <<>>
            after  == IF k = Len(rd.a_hist) THEN rd.ascii.pos ELSE rd.a_hist[k + 1].from
            Read(rows) ==
                call.err = "none" =>
                    /\ Len(call.data) = rd.file[2][5]
                    /\ \A j \in 1..Len(call.data) : Len(call.data[j]) = rows
                    /\ after = call.from + 1 + rows
        IN  /\ Len(header) = 2 =>
                /\ call.err # "Unknown header format"
                /\ call.nrows = rd.file[2][2] /\ call.fill = [n |-> 0, d |-> 1]
                /\ Read(rd.file[2][2])
            /\ Len(header) = 4 =>
                /\ call.err # "Unknown header format"
                /\ call.nrows = header[3] /\ call.fill = [n |-> header[4], d |-> 1]
                /\ Read(header[3])
            /\ Len(header) \notin {2, 4} =>
                /\ call.err = "Unknown header format"
                /\ call.data = <<>>

\* C5's cases: a dense block, a sparse block and the end of the file, read by
\* three calls in a row
C5_Witness ==
    /\ Len(rd.a_hist) = 3
    /\ Len(ReadLine(rd.file, rd.a_hist[1].from)) = 2 /\ rd.a_hist[1].err = "none"
    /\ Len(ReadLine(rd.file, rd.a_hist[2].from)) = 4 /\ rd.a_hist[2].err = "none"
    /\ rd.a_hist[2].nrows < rd.file[2][2]
    /\ rd.a_hist[3].from = Len(rd.file) + 1
    /\ rd.a_hist[3].err = "Unknown header format"

\* C12: the channel list of the indexed reader holds exactly the names of
\* the registry zeta, zeta_max, windx, windy that the container has, each
\* once, in the registry's order; n_datasets is its length; row c of a
\* snapshot that get(i) returns for a step i of the file holds the values of
\* the c-th name at step i (of the whole variable when it has no time
\* dimension).
C12_ChannelList ==
    rd.n_pc = "ready" =>
        LET registry  == <<"zeta", "zeta_max", "windx", "windy">>
            Rank(v)   == CHOOSE k \in 1..4 : registry[k] = v
            variables == rd.netcdf.variables
        IN  /\ { variables[c] : c \in 1..Len(variables) } =
                   { registry[k] : k \in 1..4 } \cap rd.container.variables
            /\ \A c, e \in 1..Len(variables) :
                   c < e => Rank(variables[c]) < Rank(variables[e])
            /\ rd.netcdf.n_datasets = Len(variables)
            /\ \A i \in rd.n_called :
                   (i < rd.in.n_steps /\ rd.n_ret[i].err = "none") =>
                       /\ Len(rd.n_ret[i].data) = Len(variables)
                       /\ \A c \in 1..Len(variables) :
                              rd.n_ret[i].data[c] =
                                  [n \in 1..NNodes |->
                                      RInt(Field(rd.in.seed,
                                                 IF variables[c] = "zeta_max" THEN 0 ELSE i,
                                                 variables[c], n))]

\* C12's case: a container with zeta, windx and windy, read at step 1
C12_Witness ==
    /\ rd.n_pc = "ready"
    /\ rd.netcdf.variables = <<"zeta", "windx", "windy">>
    /\ 1 \in rd.n_called
    /\ rd.n_ret[1].err = "none"
    /\ Len(rd.n_ret[1].data) = 3
    /\ rd.n_ret[1].data[1] # rd.n_ret[1].data[2]

\* the sequential reader was constructed without error
AsciiReady == rd.a_pc = "ready" /\ rd.ascii.err = "none"

C13_Dt ==
    /\ AsciiReady =>
           /\ rd.ascii.dt = RMul(Rat(rd.file[3][1], rd.file[3][2]), RInt(rd.file[2][4]))
           /\ rd.a_time.index >= 0 =>
                  rd.a_time.seconds = RMul(RInt(rd.a_time.index), rd.ascii.dt)

\* C13: the sequential reader's dt is (time0 / step0) * steps_per_output, from
\* the first block's header and the 4th field of line 2; it is set at
\* construction and never changes; get_time(i) returns i * dt however many
\* blocks were read, and leaves the stream where it was.
C13_TimeOfStep ==
    /\ []C13_Dt
    /\ [][AsciiReady => rd'.ascii.dt = rd.ascii.dt]_vars
    /\ [][rd'.a_time # rd.a_time => (rd'.ascii = rd.ascii /\ rd'.a_hist = rd.a_hist)]_vars

\* C13's case: after two blocks were read, get_time(1) returned dt = 3600 s
C13_Witness ==
    /\ AsciiReady
    /\ Len(rd.a_hist) = 2 /\ Returned(2)
    /\ rd.a_time.index = 1
    /\ rd.a_time.seconds = RInt(3600)
    /\ rd.ascii.dt = RInt(3600)

\* what the sequential reader holds after construction agrees with line 2
\* of its file, the channel count being field c and steps_per_output field p;
\* steps_per_output shows in dt
Line2Fields(c, p) ==
    AsciiReady =>
        /\ rd.ascii.n_time_steps = rd.file[2][1]
        /\ rd.ascii.n_nodes = rd.file[2][2]
        /\ rd.ascii.n_datasets = rd.file[2][c]
        /\ rd.ascii.dt = RMul(Rat(rd.file[3][1], rd.file[3][2]), RInt(rd.file[2][p]))

\* C17 as stated: line 2 gives the step count in its 1st field, the node
\* count in its 2nd, the channel count in its 3rd and steps_per_output in
\* its 4th.
C17_ThirdFieldChannels == Line2Fields(3, 4)

\* C17 with the fields the reader takes: the step count from the 1st field
\* of line 2, the node count from the 2nd, steps_per_output from the 4th and
\* the channel count from the 5th, which is the number of rows of every
\* snapshot; the 3rd field is not used.
C17_FifthFieldChannels ==
    /\ Line2Fields(5, 4)
    /\ \A k \in 1..Len(rd.a_hist) :
           rd.a_hist[k].err = "none" => Len(rd.a_hist[k].data) = rd.file[2][5]

\* C17's case: a file of three channels whose line 2 has 3600 in its 3rd field
C17_Witness ==
    /\ AsciiReady
    /\ rd.file[2][3] = 3600 /\ rd.file[2][5] = 3
    /\ rd.ascii.n_datasets = 3
    /\ Len(rd.a_hist) = 1 /\ Returned(1)
    /\ Len(rd.a_hist[1].data) = 3

\* C19: the snapshot that the k-th call of the sequential reader returns,
\* from a dense or a sparse block, has one row per channel and one column per
\* mesh node, and column n holds the value of node n at step k - 1: in a
\* sparse block the value of the row that names node n, and the block's fill
\* value when no row names it.
C19_NodeColumns ==
    \A k \in 1..Len(rd.a_hist) :
        Returned(k) =>
            LET chans == DatasetChannels(rd.in.names)
                block == AsciiBlock(rd.in, k - 1)
                Named(n) == { i \in 1..Len(block.rows) : block.rows[i][1] = n }
                Value(j, n) ==
                    IF Named(n) = {} THEN RInt(block.header[4])
                    ELSE RInt(block.rows[CHOOSE i \in Named(n) : TRUE][j + 1])
            IN  /\ Len(rd.a_hist[k].data) = Len(chans)
                /\ \A j \in 1..Len(chans) :
                       rd.a_hist[k].data[j] = [n \in 1..rd.file[2][2] |-> Value(j, n)]

(***************************************************************************)
(* AdcircMesh                                                              *)
(***************************************************************************)
\* an attribute that is None, and one that holds array a
Unset   == [set |-> FALSE, a |-> <<>>]
Arr(a)  == [set |-> TRUE, a |-> a]

\* filename[-3:], a file name being the sequence of its characters
Last3(filename) ==
    SubSeq(filename, IF Len(filename) > 3 THEN Len(filename) - 2 ELSE 1, Len(filename))

\* a dispatch that would refuse every suffix but ".nc" and ".14"
ReadMeshFormatClosed(filename) ==
    IF Last3(filename) = <<".", "n", "c">> THEN "netcdf"
    ELSE IF Last3(filename) = <<".", "1", "4">> THEN "ascii"
    ELSE "FormatError"

\* __read_mesh, lines 70-73: the reader the file name selects
ReadMeshFormat(filename) ==
    IF Last3(filename) = <<".", "n", "c">> THEN "netcdf" ELSE "ascii"

\* __init__, lines 53-58
MeshNone ==
    [node_x |-> Unset, node_y |-> Unset, elements |-> Unset, elevation |-> Unset,
     triangulation |-> Unset]

\* __read_mesh_ascii, lines 98-102: open, two readlines, the two counts
ReadMeshAsciiHeader(content) ==
    IF content.kind # "text" THEN [err |-> "UnicodeDecodeError", n_nodes |-> 0, n_elements |-> 0]
    ELSE LET metadata == ReadLine(content.lines, 2)
         IN  IF Len(metadata) < 2
             THEN [err |-> "IndexError", n_nodes |-> 0, n_elements |-> 0]
             ELSE [err |-> "none", n_nodes |-> metadata[2], n_elements |-> metadata[1]]

\* lines 103-106
ReadMeshAsciiAllocate(self, n_nodes, n_elements) ==
    [self EXCEPT !.node_x    = Arr([i \in 1..n_nodes |-> Zero]),
                 !.node_y    = Arr([i \in 1..n_nodes |-> Zero]),
                 !.elements  = Arr([i \in 1..n_elements |-> <<0, 0, 0>>]),
                 !.elevation = Arr([i \in 1..n_nodes |-> Zero])]

\* the first of the n lines from position first that has fewer than need
\* fields, or 0
FirstShort(lines, first, n, need) ==
    LET short == { i \in 1..n : Len(ReadLine(lines, first + i - 1)) < need }
    IN  IF short = {} THEN 0 ELSE CHOOSE i \in short : \A k \in short : i <= k

\* lines 107-111: node line i gives x, y, elevation from fields 1, 2, 3 (from 0)
ReadMeshAsciiNodes(self, lines, n_nodes) ==
    LET bad  == FirstShort(lines, 3, n_nodes, 4)
        done == IF bad = 0 THEN n_nodes ELSE bad - 1
        Fill(old, f) == [i \in 1..n_nodes |->
                            IF i <= done THEN RInt(lines[2 + i][f]) ELSE old[i]]
    IN  [err  |-> IF bad = 0 THEN "none" ELSE "IndexError",
         self |-> [self EXCEPT !.node_x.a    = Fill(@, 2),
                               !.node_y.a    = Fill(@, 3),
                               !.elevation.a = Fill(@, 4)]]

\* a bug that would take the nodes of an element from fields 1, 2, 3 (from 0)
ReadMeshAsciiElementsFromId(self, lines, n_nodes, n_elements) ==
    LET first == 3 + n_nodes
        bad   == FirstShort(lines, first, n_elements, 4)
        Row(i) == LET line == lines[first + i - 1]
                  IN  <<line[2] - 1, line[3] - 1, line[4] - 1>>
    IN  [err  |-> IF bad = 0 THEN "none" ELSE "IndexError",
         self |-> [self EXCEPT !.elements.a =
                      [i \in 1..n_elements |->
                          IF bad = 0 \/ i < bad THEN Row(i) ELSE @[i]]]]

\* lines 112-116: element line i gives its nodes from fields 2, 3, 4 (from 0),
\* each minus one
ReadMeshAsciiElements(self, lines, n_nodes, n_elements) ==
    LET first == 3 + n_nodes
        bad   == FirstShort(lines, first, n_elements, 5)
        done  == IF bad = 0 THEN n_elements ELSE bad - 1
        Row(i) == LET line == lines[first + i - 1]
                  IN  <<line[3] - 1, line[4] - 1, line[5] - 1>>
        \* the failing line has set the columns its fields reach
        Part(i) == LET line == ReadLine(lines, first + i - 1)
                   IN  [c \in 1..3 |-> IF Len(line) >= c + 2 THEN line[c + 2] - 1 ELSE 0]
    IN  [err  |-> IF bad = 0 THEN "none" ELSE "IndexError",
         self |-> [self EXCEPT !.elements.a =
                      [i \in 1..n_elements |->
                          IF i <= done THEN Row(i)
                          ELSE IF i = bad THEN Part(i) ELSE @[i]]]]

\* __read_mesh_netcdf, lines 84-88
ReadMeshNetcdf(self, content) ==
    IF content.kind # "netcdf" THEN [err |-> "OSError", self |-> self]
    ELSE [err  |-> "none",
          self |-> [self EXCEPT
                      !.node_x    = Arr([i \in DOMAIN content.x |-> RInt(content.x[i])]),
                      !.node_y    = Arr([i \in DOMAIN content.y |-> RInt(content.y[i])]),
                      !.elements  = Arr([i \in DOMAIN content.element |->
                                            [c \in 1..3 |-> content.element[i][c] - 1]]),
                      !.elevation = Arr([i \in DOMAIN content.depth |-> RInt(content.depth[i])])]]

\* nnode(), line 137, and nele(), line 147
Nnode(self) == Len(self.node_x.a)
Nele(self)  == Len(self.elements.a)

\* a bug that would take the triangles as they come
ComputeTriangulationUnchecked(self) ==
    [err |-> "none",
     self |-> [self EXCEPT !.triangulation =
                  Arr(<<self.node_x.a, self.node_y.a, self.elements.a>>)]]

\* __compute_triangulation, lines 126-128: matplotlib's Triangulation refuses
\* coordinate arrays of different lengths and triangles that name no node
ComputeTriangulation(self) ==
    LET n == Len(self.node_x.a)
    IN  IF \/ Len(self.node_y.a) # n
           \/ \E i \in DOMAIN self.elements.a : \E c \in 1..3 :
                  self.elements.a[i][c] < 0 \/ self.elements.a[i][c] >= n
        THEN [err |-> "ValueError", self |-> self]
        ELSE [err |-> "none",
              self |-> [self EXCEPT !.triangulation =
                           Arr(<<self.node_x.a, self.node_y.a, self.elements.a>>)]]

\* ---- the mesh files of SpecMesh ----
\* nodes of the mesh
MeshNodes == 4

\* the sequential-text form: title, (nele, nnode), a line (id, x, y, depth) per
\* node, a line (id, 3, n1, n2, n3) per element. The variants: "four" writes
\* the element lines as (id, n1, n2, n3); "short" has a one-field line 2;
\* "range" names a node the mesh does not have.
MeshText(nn, variant) ==
    LET ne == nn - 2
        El(e) == IF variant = "range" /\ e = ne
                 THEN <<e, e + 1, nn + 1>> ELSE MeshElement(e)
    IN  [kind  |-> "text",
         lines |-> << <<0>>, IF variant = "short" THEN <<ne>> ELSE <<ne, nn>> >>
                   \o [n \in 1..nn |-> <<n, MeshX(n), MeshY(n), MeshDepth(n)>>]
                   \o [e \in 1..ne |->
                          IF variant = "four" THEN <<e>> \o El(e)
                          ELSE <<e, 3>> \o El(e)]]

\* the indexed form: x, y, element (1-based), depth
MeshNetcdf(nn) ==
    [kind    |-> "netcdf",
     x       |-> [n \in 1..nn |-> MeshX(n)],
     y       |-> [n \in 1..nn |-> MeshY(n)],
     element |-> [e \in 1..(nn - 2) |-> MeshElement(e)],
     depth   |-> [n \in 1..nn |-> MeshDepth(n)]]

MeshContents ==
    { MeshText(nn, v) : nn \in 3..MeshNodes, v \in {"good", "four", "short", "range"} }
    \cup { MeshNetcdf(nn) : nn \in 3..MeshNodes }

MeshFilenames ==
    { <<"f", "o", "r", "t", ".", "1", "4">>,
      <<"m", "e", "s", "h", ".", "x", "y", "z">>,
      <<"m", "e", "s", "h", ".", "g", "r", "d">>,
      <<"f", "o", "r", "t", ".", "7", "4", ".", "n", "c">>,
      <<"n", "c">> }

\* ---- SpecMesh ----
MeshInit ==
    /\ san = Idle
    /\ grid = Idle
    /\ rd = Idle
    /\ run = Idle
    /\ surge = Idle
    /\ mesh \in [filename : MeshFilenames, content : MeshContents,
                 pc : {"read_mesh"}, err : {"none"},
                 n_nodes : {0}, n_elements : {0}, self : {MeshNone}]

\* line 70
MeshDispatch ==
    /\ mesh.pc = "read_mesh"
    /\ mesh' = [mesh EXCEPT !.pc = ReadMeshFormat(mesh.filename)]
    /\ UNCHANGED <<san, grid, rd, run, surge>>

\* lines 98-102
MeshAsciiHeader ==
    /\ mesh.pc = "ascii"
    /\ LET h == ReadMeshAsciiHeader(mesh.content)
       IN  mesh' = IF h.err # "none"
                   THEN [mesh EXCEPT !.pc = "failed", !.err = h.err]
                   ELSE [mesh EXCEPT !.pc = "header", !.n_nodes = h.n_nodes,
                                     !.n_elements = h.n_elements]
    /\ UNCHANGED <<san, grid, rd, run, surge>>

\* lines 103-106
MeshAsciiAllocate ==
    /\ mesh.pc = "header"
    /\ mesh' = [mesh EXCEPT !.pc = "allocated",
                   !.self = ReadMeshAsciiAllocate(@, mesh.n_nodes, mesh.n_elements)]
    /\ UNCHANGED <<san, grid, rd, run, surge>>

\* lines 107-111
MeshAsciiNodes ==
    /\ mesh.pc = "allocated"
    /\ LET r == ReadMeshAsciiNodes(mesh.self, mesh.content.lines, mesh.n_nodes)
       IN  mesh' = [mesh EXCEPT !.self = r.self, !.err = r.err,
                                !.pc = IF r.err = "none" THEN "nodes" ELSE "failed"]
    /\ UNCHANGED <<san, grid, rd, run, surge>>

\* lines 112-116
MeshAsciiElements ==
    /\ mesh.pc = "nodes"
    /\ LET r == ReadMeshAsciiElements(mesh.self, mesh.content.lines,
                                      mesh.n_nodes, mesh.n_elements)
       IN  mesh' = [mesh EXCEPT !.self = r.self, !.err = r.err,
                                !.pc = IF r.err = "none" THEN "read" ELSE "failed"]
    /\ UNCHANGED <<san, grid, rd, run, surge>>

\* lines 84-88
MeshNetcdfRead ==
    /\ mesh.pc = "netcdf"
    /\ LET r == ReadMeshNetcdf(mesh.self, mesh.content)
       IN  mesh' = [mesh EXCEPT !.self = r.self, !.err = r.err,
                                !.pc = IF r.err = "none" THEN "read" ELSE "failed"]
    /\ UNCHANGED <<san, grid, rd, run, surge>>

\* line 60
MeshTriangulate ==
    /\ mesh.pc = "read"
    /\ LET r == ComputeTriangulation(mesh.self)
       IN  mesh' = [mesh EXCEPT !.self = r.self, !.err = r.err,
                                !.pc = IF r.err = "none" THEN "built" ELSE "failed"]
    /\ UNCHANGED <<san, grid, rd, run, surge>>

MeshNext ==
    \/ MeshDispatch \/ MeshAsciiHeader \/ MeshAsciiAllocate \/ MeshAsciiNodes
    \/ MeshAsciiElements \/ MeshNetcdfRead \/ MeshTriangulate

\* no geometry array of the mesh is allocated
NoGeometry ==
    /\ ~mesh.self.node_x.set /\ ~mesh.self.node_y.set
    /\ ~mesh.self.elements.set /\ ~mesh.self.elevation.set

\* a file name that ends neither in ".nc" nor in ".14"
Unrecognized(filename) ==
    Last3(filename) \notin { <<".", "n", "c">>, <<".", "1", "4">> }

\* C6 as stated: construction with an unrecognized suffix never gets past the
\* dispatch: it is never in the sequential or the indexed reader, it ends in
\* FormatError, and no geometry array is ever allocated.
C6_SuffixRaises ==
    Unrecognized(mesh.filename) =>
        /\ mesh.pc \in {"read_mesh", "FormatError"}
        /\ NoGeometry

\* C6 amended: a file name that does not end in ".nc" raises no error at the
\* dispatch, whatever its suffix: construction goes on in the sequential-text
\* reader, a silent fallback. No geometry array is allocated before line 2 of
\* the file is parsed: a construction that fails on opening the file or on
\* line 2 leaves all four unallocated, one that fails on a later line leaves
\* them allocated.
C6_SuffixFallsBack ==
    /\ Last3(mesh.filename) # <<".", "n", "c">> =>
           /\ mesh.pc \in {"read_mesh", "ascii", "header", "allocated", "nodes",
                          "read", "built", "failed"}
           /\ mesh.pc = "failed" =>
                  mesh.err \in {"UnicodeDecodeError", "IndexError", "ValueError"}
           /\ mesh.pc \in {"allocated", "nodes", "read", "built"} =>
                  Len(mesh.self.node_x.a) = ReadLine(mesh.content.lines, 2)[2]
    /\ mesh.pc \in {"read_mesh", "ascii", "netcdf", "header"} => NoGeometry
    /\ (mesh.pc = "failed" /\ mesh.err \in {"UnicodeDecodeError", "OSError"}) => NoGeometry
    /\ (mesh.pc = "failed" /\ mesh.content.kind = "text"
          /\ Len(ReadLine(mesh.content.lines, 2)) < 2
          /\ Last3(mesh.filename) # <<".", "n", "c">>) => NoGeometry
    /\ (mesh.pc = "failed" /\ mesh.err \in {"IndexError", "ValueError"}
          /\ mesh.content.kind = "text"
          /\ Len(ReadLine(mesh.content.lines, 2)) >= 2) =>
           /\ mesh.self.node_x.set /\ mesh.self.node_y.set
           /\ mesh.self.elements.set /\ mesh.self.elevation.set

\* C6's case: a mesh named mesh.xyz was read as sequential text and built
C6_Witness ==
    /\ mesh.filename = <<"m", "e", "s", "h", ".", "x", "y", "z">>
    /\ mesh.pc = "built"
    /\ mesh.err = "none"
    /\ Len(mesh.self.node_x.a) = MeshNodes
    /\ mesh.self.triangulation.set

TextMeshRead(first) ==
    LET lines == mesh.content.lines
        self  == mesh.self
    IN  /\ mesh.n_elements = lines[2][1] /\ mesh.n_nodes = lines[2][2]
        /\ \A i \in 1..mesh.n_nodes :
               /\ self.node_x.a[i] = RInt(lines[2 + i][2])
               /\ self.node_y.a[i] = RInt(lines[2 + i][3])
               /\ self.elevation.a[i] = RInt(lines[2 + i][4])
        /\ Len(self.elements.a) = mesh.n_elements
        /\ \A e \in 1..mesh.n_elements :
               LET line == lines[2 + mesh.n_nodes + e]
               IN  /\ Len(line) >= first + 2
                   /\ self.elements.a[e] =
                          <<line[first] - 1, line[first + 1] - 1, line[first + 2] - 1>>

\* a text mesh whose line 2 has both counts is being read by the text reader
TextMesh ==
    /\ mesh.content.kind = "text"
    /\ Len(ReadLine(mesh.content.lines, 2)) >= 2
    /\ Last3(mesh.filename) # <<".", "n", "c">>

\* C18 as stated: the element lines are (id, n1, n2, n3): a mesh written so
\* is read, and element row e of a text mesh is the 2nd, 3rd and 4th fields
\* of its e-th element line, each minus one.
C18_ElementFromSecondField ==
    TextMesh =>
        /\ mesh.pc \in {"read", "built"} => TextMeshRead(2)
        /\ (\A e \in 1..mesh.content.lines[2][1] :
                Len(mesh.content.lines[2 + mesh.content.lines[2][2] + e]) = 4)
               => mesh.err # "IndexError"

\* C18 with the fields the reader takes: line 2 gives (nele, nnode), the
\* node lines give (id, x, y, elevation), and each of the nele element lines
\* has the fields (id, count, n1, n2, n3): element row e is
\* (n1 - 1, n2 - 1, n3 - 1) from the 3rd, 4th and 5th fields. An element
\* line of four fields (id, n1, n2, n3) fails the construction with an
\* IndexError.
C18_ElementFromThirdField ==
    TextMesh =>
        /\ mesh.pc \in {"read", "built"} => TextMeshRead(3)
        /\ (mesh.content.lines[2][1] > 0 /\
            \A e \in 1..mesh.content.lines[2][1] :
                Len(mesh.content.lines[2 + mesh.content.lines[2][2] + e]) = 4)
               => /\ mesh.pc \notin {"read", "built"}
                  /\ mesh.pc = "failed" => mesh.err = "IndexError"

\* C18's case: the 4-node mesh with element lines (1, 3, 1, 2, 3) and
\* (2, 3, 2, 3, 4) was read
C18_Witness ==
    /\ TextMesh
    /\ mesh.pc = "read"
    /\ Len(mesh.content.lines) = 8
    /\ mesh.content.lines[7] = <<1, 3, 1, 2, 3>>
    /\ mesh.content.lines[8] = <<2, 3, 2, 3, 4>>
    /\ mesh.self.elements.a = << <<0, 1, 2>>, <<1, 2, 3>> >>

(***************************************************************************)
(* AdcircMesh and AdcircResult as write() uses them                        *)
(***************************************************************************)
\* AdcircMesh(filename), lines 53-60: the error raised if any, and the object
AdcircMeshNew(filename, content) ==
    IF ReadMeshFormat(filename) = "netcdf"
    THEN LET r == ReadMeshNetcdf(MeshNone, content)
         IN  IF r.err # "none" THEN r ELSE ComputeTriangulation(r.self)
    ELSE LET h == ReadMeshAsciiHeader(content)
         IN  IF h.err # "none" THEN [err |-> h.err, self |-> MeshNone]
             ELSE LET a == ReadMeshAsciiAllocate(MeshNone, h.n_nodes, h.n_elements)
                      n == ReadMeshAsciiNodes(a, content.lines, h.n_nodes)
                  IN  IF n.err # "none" THEN n
                      ELSE LET e == ReadMeshAsciiElements(n.self, content.lines,
                                                          h.n_nodes, h.n_elements)
                           IN  IF e.err # "none" THEN e
                               ELSE ComputeTriangulation(e.self)

\* __check_file_format, lines 263-274
CheckFileFormat(filename) ==
    IF Last3(filename) = <<".", "n", "c">> THEN "netcdf" ELSE "ascii"

\* AdcircResult(filename), lines 241-250 and __initialize, lines 276-289
AdcircResultNew(filename, content) ==
    IF CheckFileFormat(filename) = "netcdf"
    THEN IF content.kind = "netcdf" THEN NetcdfInitialize(content)
         ELSE [err |-> "OSError"]
    ELSE IF content.kind = "text" THEN AsciiInitialize(content.lines)
         ELSE [err |-> "UnicodeDecodeError"]

\* get(index), lines 402-405
Get(self, content, index) ==
    IF self.file_format = "netcdf"
    THEN LET r == NetcdfGet(self, content, index)
         IN  [self |-> self, err |-> r.err, data |-> r.data]
    ELSE LET r == AsciiGet(self, content.lines)
         IN  [self |-> r.self, err |-> r.err, data |-> r.data]

(***************************************************************************)
(* Interpolation: get_interpolator, lines 204-221, and the call of the     *)
(* interpolator on the grid, lines 622-623                                 *)
(***************************************************************************)
Pt(x, y) == [x |-> x, y |-> y]
\* (a - o) x (b - o)
Cross(o, a, b) ==
    RSub(RMul(RSub(a.x, o.x), RSub(b.y, o.y)), RMul(RSub(a.y, o.y), RSub(b.x, o.x)))

\* the value at p of the plane through the triangle's three node values, or
\* NaN when p is not in the triangle (its edges belong to it)
TriValue(p, a, b, c, za, zb, zc) ==
    LET det == Cross(a, b, c)
    IN  IF det.n = 0 THEN NaN
        ELSE LET wa == RDiv(Cross(p, b, c), det)
                 wb == RDiv(Cross(p, c, a), det)
                 wc == RDiv(Cross(p, a, b), det)
             IN  IF wa.n < 0 \/ wb.n < 0 \/ wc.n < 0 THEN NaN
                 ELSE RAdd(RAdd(RMul(wa, za), RMul(wb, zb)), RMul(wc, zc))

\* LinearTriInterpolator(triangulation, z)(x, y) at one point: the value in
\* the triangle that holds the point, NaN (masked) outside the mesh
InterpolateAt(tri, z, p) ==
    LET x == tri[1]
        y == tri[2]
        elements == tri[3]
        At(e) == TriValue(p, Pt(x[elements[e][1] + 1], y[elements[e][1] + 1]),
                             Pt(x[elements[e][2] + 1], y[elements[e][2] + 1]),
                             Pt(x[elements[e][3] + 1], y[elements[e][3] + 1]),
                             z[elements[e][1] + 1], z[elements[e][2] + 1],
                             z[elements[e][3] + 1])
        holds == { e \in DOMAIN elements : At(e) # NaN }
    IN  IF holds = {} THEN NaN
        ELSE At(CHOOSE e \in holds : \A k \in holds : e <= k)

\* a bug that would raise for a grid that reaches beyond the mesh
InterpolateInsideOnly(tri, z, xx, yy) ==
    IF \/ Len(z) # Len(tri[1])
       \/ \E ix \in DOMAIN xx, iy \in DOMAIN yy :
              InterpolateAt(tri, z, Pt(xx[ix], yy[iy])) = NaN
    THEN [err |-> "ValueError", result |-> <<>>]
    ELSE [err |-> "none",
          result |-> [k \in 1..(Len(yy) * Len(xx)) |->
                        InterpolateAt(tri, z, Pt(xx[((k - 1) % Len(xx)) + 1],
                                                 yy[((k - 1) \div Len(xx)) + 1]))]]

\* the interpolated slice on meshgrid(xx, yy), shape (len(yy), len(xx)), row
\* by row; ValueError when z has not one value per node of the triangulation
Interpolate(tri, z, xx, yy) ==
    IF Len(z) # Len(tri[1]) THEN [err |-> "ValueError", result |-> <<>>]
    ELSE [err |-> "none",
          result |-> [k \in 1..(Len(yy) * Len(xx)) |->
                        InterpolateAt(tri, z, Pt(xx[((k - 1) % Len(xx)) + 1],
                                                 yy[((k - 1) \div Len(xx)) + 1]))]]

(***************************************************************************)
(* HecWindFile.write, lines 478-641                                        *)
(***************************************************************************)
\* the dates and times of day the unit texts name, as strptime reads them
Calendar == [t \in {"2022-09-19"} |-> <<2022, 9, 19>>]
Clock    == [t \in {"06:00:00"} |-> <<6, 0, 0>>]

\* lines 522-524: the last two words of the units text, read as
\* "%Y-%m-%d %H:%M:%S"
ParseRefTime(ref_time) ==
    LET words == SubSeq(ref_time, IF Len(ref_time) > 2 THEN Len(ref_time) - 1 ELSE 1,
                        Len(ref_time))
    IN  IF Len(words) = 2 /\ words[1] \in DOMAIN Calendar /\ words[2] \in DOMAIN Clock
        THEN [err |-> "none", datetime |-> Calendar[words[1]] \o Clock[words[2]]]
        ELSE [err |-> "ValueError", datetime |-> <<>>]

\* lines 581-583: "minutes since " and strftime("%Y-%m-%d %H:%M:%S")
TimeUnits(datetime) ==
    <<"minutes", "since",
      CHOOSE t \in DOMAIN Calendar : Calendar[t] = SubSeq(datetime, 1, 3),
      CHOOSE t \in DOMAIN Clock : Clock[t] = SubSeq(datetime, 4, 6)>>

\* a record of a container variable: n counts the assignments made to it
Unwritten == [n |-> 0, v |-> <<>>]
WriteAt(var, i, value) == [var EXCEPT ![i + 1] = [n |-> @.n + 1, v |-> <<value>>]]

NoOutput ==
    [open |-> FALSE, closed |-> FALSE, lon |-> <<>>, lat |-> <<>>, units |-> <<>>,
     time |-> <<>>, wind_u |-> <<>>, wind_v |-> <<>>]

\* lines 531-609: the container with its dimensions, variables and axes
CreateOutput(xx, yy, n_steps, reference_time) ==
    [open |-> TRUE, closed |-> FALSE, lon |-> xx, lat |-> yy,
     units  |-> TimeUnits(reference_time),
     time   |-> [k \in 1..n_steps |-> Unwritten],
     wind_u |-> [k \in 1..n_steps |-> Unwritten],
     wind_v |-> [k \in 1..n_steps |-> Unwritten]]

\* a bug that would store the time value before the step is interpolated
LoopBodyTimeFirst ==
    <<"get", "write_time", "interpolate", "force_low", "nan_to_num", "write_u", "write_v">>

\* the statements of the loop body, lines 613-634, in order
LoopBody ==
    <<"get", "interpolate", "force_low", "nan_to_num", "write_time", "write_u", "write_v">>

\* the statement after stmt: the next of the body, or the loop header
After(stmt) ==
    LET k == CHOOSE j \in DOMAIN LoopBody : LoopBody[j] = stmt
    IN  IF k < Len(LoopBody) THEN LoopBody[k + 1] ELSE "for"

\* a bug that would leave the loop one step early
LoopDoneEarly(i, n_steps) == i >= n_steps - 1

\* line 612, for i in range(n_steps): no step is left
LoopDone(i, n_steps) == i >= n_steps

\* ---- the calls of Spec ----
\* mesh nodes of the separate mesh files run from 3 to MeshNodes;
\* the dataset has NNodes nodes and up to MaxSteps steps
NoMeshFile == [filename |-> <<>>, content |-> [kind |-> "none"]]
MeshFiles ==
    { [filename |-> <<"f", "o", "r", "t", ".", "1", "4">>, content |-> MeshText(nn, v)] :
         nn \in 3..MeshNodes, v \in {"good", "four"} }

\* a box over the first triangle and beyond the mesh; the same with the x
\* bounds given in the other order; one whose x bounds give a negative count
Boxes ==
    { [x_min |-> Rat(1, 2), x_max |-> Rat(5, 2), y_min |-> Rat(1, 2), y_max |-> Rat(5, 2),
       resolution |-> RInt(2)],
      [x_min |-> Rat(5, 2), x_max |-> Rat(1, 2), y_min |-> Rat(1, 2), y_max |-> Rat(5, 2),
       resolution |-> RInt(2)],
      [x_min |-> Rat(5, 2), x_max |-> Rat(-7, 2), y_min |-> Rat(1, 2), y_max |-> Rat(5, 2),
       resolution |-> RInt(2)] }

AllDense(k) == [s \in 1..k |-> "dense"]

\* the input file in the indexed form: a time record may be damaged, the units
\* text may carry a time zone
NetcdfInputs ==
    UNION { [seed : Seeds, n_steps : {k}, names : Containers, enc : {AllDense(k)},
             units : {Units, Units \o <<"UTC">>},
             damaged : {{}} \cup { {t} : t \in 0..(k - 1) }] : k \in 0..MaxSteps }
\* the input file in the sequential form
AsciiInputs ==
    UNION { [seed : Seeds, n_steps : {k}, names : Containers, enc : {AllDense(k)},
             units : {Units}, damaged : {{}}] : k \in 0..MaxSteps }

InputFile(form, in) ==
    IF form = "netcdf"
    THEN [filename |-> <<"f", "o", "r", "t", ".", "7", "4", ".", "n", "c">>,
          content  |-> NetcdfContainer(in)]
    ELSE [filename |-> <<"f", "o", "r", "t", ".", "7", "4">>,
          content  |-> [kind |-> "text", lines |-> AsciiFile(in)]]

\* HecWindFile(input_file, mesh_file, output_file), lines 463-476, and the
\* arguments of write
RunArgs ==
    { [form |-> form, in |-> in, input_file |-> InputFile(form, in),
       mesh_file |-> mf, box |-> box] :
         form \in {"netcdf"}, in \in NetcdfInputs,
         mf \in {NoMeshFile} \cup MeshFiles, box \in Boxes }
    \cup
    { [form |-> form, in |-> in, input_file |-> InputFile(form, in),
       mesh_file |-> mf, box |-> box] :
         form \in {"ascii"}, in \in AsciiInputs,
         mf \in {NoMeshFile} \cup MeshFiles, box \in Boxes }

Init ==
    /\ san = Idle
    /\ grid = Idle
    /\ rd = Idle
    /\ mesh = Idle
    /\ surge = Idle
    /\ \E args \in RunArgs :
         run = [args |-> args, pc |-> "dataset", err |-> "none", at |-> "none",
                dataset |-> [err |-> "none"], mesh |-> MeshNone, n_steps |-> 0,
                reference_time |-> <<>>, xx |-> <<>>, yy |-> <<>>, i |-> 0,
                wind_raw |-> <<>>, timestep_now |-> Zero, result |-> <<>>,
                out |-> NoOutput, log |-> <<>>]

\* an exception leaves write at statement r.pc
Abort(r, err) == [r EXCEPT !.pc = "aborted", !.err = err, !.at = r.pc]
\* a loop statement has been executed
Logged(r) == [r EXCEPT !.log = Append(@, [stmt |-> r.pc, i |-> r.i])]

\* line 515
RunDataset ==
    /\ run.pc = "dataset"
    /\ LET d == AdcircResultNew(run.args.input_file.filename, run.args.input_file.content)
       IN  run' = IF d.err # "none" THEN Abort(run, d.err)
                  ELSE [run EXCEPT !.pc = "mesh", !.dataset = d]
    /\ UNCHANGED <<san, grid, rd, mesh, surge>>

\* lines 516-519
RunMesh ==
    /\ run.pc = "mesh"
    /\ LET file == IF run.args.mesh_file = NoMeshFile THEN run.args.input_file
                   ELSE run.args.mesh_file
           m    == AdcircMeshNew(file.filename, file.content)
       IN  run' = IF m.err # "none" THEN Abort(run, m.err)
                  ELSE [run EXCEPT !.pc = "ref_time", !.mesh = m.self]
    /\ UNCHANGED <<san, grid, rd, mesh, surge>>

\* lines 521-524: the reader's __ref_time is set by __initialize_netcdf only
RunRefTime ==
    /\ run.pc = "ref_time"
    /\ run' = IF "ref_time" \notin DOMAIN run.dataset THEN Abort(run, "AttributeError")
              ELSE LET t == ParseRefTime(run.dataset.ref_time)
                   IN  IF t.err # "none" THEN Abort(run, t.err)
                       ELSE [run EXCEPT !.pc = "grid",
                                        !.n_steps = run.dataset.n_time_steps,
                                        !.reference_time = t.datetime]
    /\ UNCHANGED <<san, grid, rd, mesh, surge>>

\* lines 527-529
RunGrid ==
    /\ run.pc = "grid"
    /\ LET box  == run.args.box
           numx == AxisNum(box.x_min, box.x_max, box.resolution)
           numy == AxisNum(box.y_min, box.y_max, box.resolution)
       IN  run' = IF numx < 0 \/ numy < 0 THEN Abort(run, "ValueError")
                  ELSE [run EXCEPT !.pc = "create",
                                   !.xx = Linspace(box.x_min, box.x_max, numx),
                                   !.yy = Linspace(box.y_min, box.y_max, numy)]
    /\ UNCHANGED <<san, grid, rd, mesh, surge>>

\* lines 531-609
RunCreate ==
    /\ run.pc = "create"
    /\ run' = [run EXCEPT !.pc = "for", !.i = 0,
                          !.out = CreateOutput(run.xx, run.yy, run.n_steps,
                                               run.reference_time)]
    /\ UNCHANGED <<san, grid, rd, mesh, surge>>

\* line 612: the next i of range(n_steps), or the end of the loop. The loop
\* variable is counted up here when the body has run.
RunFor ==
    /\ run.pc = "for"
    /\ LET i == IF run.log = <<>> THEN 0 ELSE run.i + 1
       IN  run' = IF LoopDone(i, run.n_steps) THEN [run EXCEPT !.pc = "close"]
                  ELSE [run EXCEPT !.pc = LoopBody[1], !.i = i]
    /\ UNCHANGED <<san, grid, rd, mesh, surge>>

\* lines 613-617
RunGet ==
    /\ run.pc = "get"
    /\ LET r == Get(run.dataset, run.args.input_file.content, run.i)
       IN  run' = IF r.err # "none" THEN Abort(Logged(run), r.err)
                  ELSE IF Len(r.data) < 2 THEN Abort(Logged(run), "IndexError")
                  ELSE [Logged(run) EXCEPT
                          !.pc = After("get"), !.dataset = r.self,
                          !.wind_raw = <<r.data[1], r.data[2]>>,
                          !.timestep_now = GetTime(run.dataset,
                                                   run.args.input_file.content, run.i)]
    /\ UNCHANGED <<san, grid, rd, mesh, surge>>

\* lines 619-623
RunInterpolate ==
    /\ run.pc = "interpolate"
    /\ LET u == Interpolate(run.mesh.triangulation.a, run.wind_raw[1], run.xx, run.yy)
           v == Interpolate(run.mesh.triangulation.a, run.wind_raw[2], run.xx, run.yy)
       IN  run' = IF u.err # "none" THEN Abort(Logged(run), u.err)
                  ELSE IF v.err # "none" THEN Abort(Logged(run), v.err)
                  ELSE [Logged(run) EXCEPT !.pc = After("interpolate"),
                                           !.result = <<u.result, v.result>>]
    /\ UNCHANGED <<san, grid, rd, mesh, surge>>

\* lines 626-627
RunForceLow ==
    /\ run.pc = "force_low"
    /\ run' = [Logged(run) EXCEPT !.pc = After("force_low"),
                  !.result = <<ForceLow(run.result[1]), ForceLow(run.result[2])>>]
    /\ UNCHANGED <<san, grid, rd, mesh, surge>>

\* lines 628-629
RunNanToNum ==
    /\ run.pc = "nan_to_num"
    /\ run' = [Logged(run) EXCEPT !.pc = After("nan_to_num"),
                  !.result = <<NanToNum(run.result[1]), NanToNum(run.result[2])>>]
    /\ UNCHANGED <<san, grid, rd, mesh, surge>>

\* a bug that would store the seconds as they are
ToMinutesNot(seconds) == seconds

\* line 631: convert seconds to minutes
ToMinutes(seconds) == RDiv(seconds, RInt(60))

\* line 632
RunWriteTime ==
    /\ run.pc = "write_time"
    /\ run' = [Logged(run) EXCEPT !.pc = After("write_time"),
                  !.out.time = WriteAt(@, run.i, ToMinutes(run.timestep_now))]
    /\ UNCHANGED <<san, grid, rd, mesh, surge>>

\* line 633
RunWriteU ==
    /\ run.pc = "write_u"
    /\ run' = [Logged(run) EXCEPT !.pc = After("write_u"),
                  !.out.wind_u = WriteAt(@, run.i, run.result[1])]
    /\ UNCHANGED <<san, grid, rd, mesh, surge>>

\* line 634
RunWriteV ==
    /\ run.pc = "write_v"
    /\ run' = [Logged(run) EXCEPT !.pc = After("write_v"),
                  !.out.wind_v = WriteAt(@, run.i, run.result[2])]
    /\ UNCHANGED <<san, grid, rd, mesh, surge>>

\* line 641
RunClose ==
    /\ run.pc = "close"
    /\ run' = [run EXCEPT !.pc = "closed", !.out.closed = TRUE]
    /\ UNCHANGED <<san, grid, rd, mesh, surge>>

Next ==
    \/ RunDataset \/ RunMesh \/ RunRefTime \/ RunGrid \/ RunCreate \/ RunFor
    \/ RunGet \/ RunInterpolate \/ RunForceLow \/ RunNanToNum
    \/ RunWriteTime \/ RunWriteU \/ RunWriteV \/ RunClose

\* the state machine's phase of a loop statement
Phase(stmt) ==
    CASE stmt = "get" -> 1                                  \* ReadSnapshot
      [] stmt = "interpolate" -> 2                          \* InterpolateChannels
      [] stmt \in {"force_low", "nan_to_num"} -> 3          \* Sanitize
      [] stmt \in {"write_time", "write_u", "write_v"} -> 4 \* WriteSlice

\* the records of step j (from 0) of the three output variables
Written(j) ==
    <<run.out.time[j + 1].n, run.out.wind_u[j + 1].n, run.out.wind_v[j + 1].n>>

\* write has raised inside the loop body
AbortedInStep ==
    run.pc = "aborted" /\ run.at \in {"get", "interpolate", "force_low", "nan_to_num",
                                      "write_time", "write_u", "write_v"}

C1_NothingOfTheStep ==
    /\ AbortedInStep =>
           /\ run.err \in {"RuntimeError", "IndexError", "ValueError",
                           "Unknown header format"}
           /\ run.at \in {"get", "interpolate"}
           /\ run.i < run.n_steps
           /\ Written(run.i) = <<0, 0, 0>>
           /\ \A j \in 0..(run.i - 1) : Written(j) = <<1, 1, 1>>
           /\ \A j \in (run.i + 1)..(run.n_steps - 1) : Written(j) = <<0, 0, 0>>
           /\ ~run.out.closed
    /\ run.pc = "closed" => run.i = run.n_steps - 1 \/ run.n_steps = 0

\* C1: the loop of write ends when range(n_steps) is exhausted or at the first
\* read or format error, which ends write: no statement follows it. When step
\* i aborts, neither time[i] nor a channel slice of step i has been written,
\* no later step has been touched, and steps 0..i-1 hold what they were given
\* when they were written: a record of a written step never changes.
C1_AbortWritesNothing ==
    /\ []C1_NothingOfTheStep
    /\ [][run.pc # "aborted"]_vars
    /\ [][run.out.open =>
            \A k \in DOMAIN run.out.time :
                /\ run.out.time[k].n > 0 => run'.out.time[k] = run.out.time[k]
                /\ run.out.wind_u[k].n > 0 => run'.out.wind_u[k] = run.out.wind_u[k]
                /\ run.out.wind_v[k].n > 0 => run'.out.wind_v[k] = run.out.wind_v[k]]_vars

\* C1's case: step 0 was written, then the read of step 1 failed
C1_Witness ==
    /\ AbortedInStep
    /\ run.at = "get" /\ run.err = "RuntimeError"
    /\ run.i = 1
    /\ Written(0) = <<1, 1, 1>> /\ Written(1) = <<0, 0, 0>>
    /\ Len(run.out.wind_u[1].v[1]) > 0

\* C2: steps are taken in increasing index order from 0, and inside a step
\* the statements run in the phase order read, interpolate, sanitize, write;
\* no record of the output is assigned twice; the container is closed only by
\* a run without error, after every step 0..n_steps-1 went through all four
\* phases and got exactly one time value and one slice per channel.
C2_PhaseOrder ==
    /\ \A k \in 1..Len(run.log) :
           IF k = 1 THEN run.log[k].i = 0 /\ Phase(run.log[k].stmt) = 1
           ELSE \/ /\ run.log[k].i = run.log[k - 1].i
                   /\ Phase(run.log[k].stmt) \in
                          {Phase(run.log[k - 1].stmt), Phase(run.log[k - 1].stmt) + 1}
                   /\ run.log[k].stmt # run.log[k - 1].stmt
                \/ /\ run.log[k].i = run.log[k - 1].i + 1
                   /\ run.log[k - 1].stmt = "write_v"
                   /\ Phase(run.log[k].stmt) = 1
    /\ run.out.open =>
           \A j \in 0..(run.n_steps - 1) :
               \A c \in 1..3 : Written(j)[c] <= 1
    /\ run.out.closed =>
           /\ run.pc = "closed" /\ run.err = "none"
           /\ \A j \in 0..(run.n_steps - 1) :
                  /\ Written(j) = <<1, 1, 1>>
                  /\ \A ph \in 1..4 :
                        \E k \in 1..Len(run.log) :
                            run.log[k].i = j /\ Phase(run.log[k].stmt) = ph
                  /\ Len(run.out.wind_u[j + 1].v[1]) = Len(run.yy) * Len(run.xx)
                  /\ Len(run.out.wind_v[j + 1].v[1]) = Len(run.yy) * Len(run.xx)
    /\ run.pc = "closed" => run.out.closed

\* C2's case: a run of two steps on a grid of four cells was closed
C2_Witness ==
    /\ run.pc = "closed" /\ run.out.closed
    /\ run.n_steps = 2
    /\ Written(0) = <<1, 1, 1>> /\ Written(1) = <<1, 1, 1>>
    /\ Len(run.out.wind_u[2].v[1]) = 4
    /\ run.out.time[1].v[1] # run.out.time[2].v[1]

\* C7 as stated: write on an input in the sequential form does not fail
\* while it obtains the reference time; with a dataset and a mesh that were
\* read it goes on to build the grid.
C7_SequentialHasRefTime ==
    run.args.form = "ascii" =>
        /\ run.pc = "aborted" => run.at # "ref_time"
        /\ run.pc # "ref_time" \/ "ref_time" \in DOMAIN run.dataset

\* C11: the time value stored at index i is the reader's get_time(i), the
\* seconds of snapshot i, divided by 60, and the units text of the output time
\* axis names the reference instant of the input's units text: values are
\* minutes since that instant. 3600 seconds are stored as 60.
C11_TimeInMinutes ==
    run.out.open =>
        /\ run.out.units = <<"minutes", "since">> \o
               SubSeq(run.args.in.units, Len(run.args.in.units) - 1, Len(run.args.in.units))
        /\ \A i \in 0..(run.n_steps - 1) :
               run.out.time[i + 1].n > 0 =>
                   LET seconds == GetTime(run.dataset, run.args.input_file.content, i)
                       minutes == run.out.time[i + 1].v[1]
                   IN  /\ RMul(minutes, RInt(60)) = seconds
                       /\ seconds = RInt(3600) => minutes = RInt(60)

\* C11's case: the snapshot at 3600 seconds was stored as 60 minutes
C11_Witness ==
    /\ run.out.open
    /\ run.n_steps = 2
    /\ run.out.time[1].n = 1
    /\ GetTime(run.dataset, run.args.input_file.content, 0) = RInt(3600)
    /\ run.out.time[1].v = <<RInt(60)>>

\* the values of channel v at step i (from 0) of the input, a value per node
ChannelOf(v, i) ==
    [n \in 1..NNodes |-> RInt(Field(run.args.in.seed, IF HasTimeDim(v) THEN i ELSE 0, v, n))]

\* the slice write stores for channel v at step i: interpolated to the grid,
\* then sanitized
SliceOf(v, i) ==
    Sanitize(Interpolate(run.mesh.triangulation.a, ChannelOf(v, i), run.xx, run.yy).result)

\* C20 as stated: the wind_u slice written at step i is interpolated from the
\* windx channel of snapshot i and the wind_v slice from its windy channel,
\* whatever other channels of the registry the input holds; nothing is written
\* under wind_u or wind_v from an input without that channel.
C20_WindChannels ==
    run.out.open =>
        \A i \in 0..(run.n_steps - 1) :
            /\ run.out.wind_u[i + 1].n > 0 =>
                   /\ "windx" \in run.args.in.names
                   /\ run.out.wind_u[i + 1].v[1] = SliceOf("windx", i)
            /\ run.out.wind_v[i + 1].n > 0 =>
                   /\ "windy" \in run.args.in.names
                   /\ run.out.wind_v[i + 1].v[1] = SliceOf("windy", i)

\* the same for inputs whose only registry channels are windx and windy
C20_WindOnly ==
    run.args.in.names = {"windx", "windy"} => C20_WindChannels

\* an input of windx and windy alone had a slice of each written, the two differ
C20_WindOnlySeen ==
    /\ run.args.in.names = {"windx", "windy"}
    /\ run.out.open /\ run.n_steps = 2
    /\ Written(1) = <<1, 1, 1>>
    /\ run.out.wind_u[2].v[1] # run.out.wind_v[2].v[1]
    /\ run.out.wind_u[2].v[1] = SliceOf("windx", 1)

\* the point of cell k of a slice on meshgrid(run.xx, run.yy), row by row
CellPoint(k) ==
    Pt(run.xx[((k - 1) % Len(run.xx)) + 1], run.yy[((k - 1) \div Len(run.xx)) + 1])

\* p lies in no triangle of the triangulation, edges and corners included: for
\* every element some edge has p strictly on the side away from the third node
OutsideMesh(p) ==
    LET tri == run.mesh.triangulation.a
        Node(e, j) == Pt(tri[1][tri[3][e][j] + 1], tri[2][tri[3][e][j] + 1])
        Away(o, a, b) == RMul(Cross(o, a, p), Cross(o, a, b)).n < 0
    IN  \A e \in DOMAIN tri[3] :
            \/ Away(Node(e, 1), Node(e, 2), Node(e, 3))
            \/ Away(Node(e, 2), Node(e, 3), Node(e, 1))
            \/ Away(Node(e, 3), Node(e, 1), Node(e, 2))

\* the cells of the grid outside the mesh
OutsideCells == { k \in 1..(Len(run.yy) * Len(run.xx)) : OutsideMesh(CellPoint(k)) }

\* C21: for every grid cell outside the mesh the interpolator yields NaN and
\* raises nothing: write leaves the interpolation of a step by an exception
\* only when the snapshot has not one value per mesh node, and never leaves
\* the sanitizing or the writing of a step by one; the value written for the
\* cell is 0.0 in wind_u and in wind_v at every step.
C21_OutsideIsZero ==
    run.out.open =>
        /\ run.pc = "force_low" =>
               \A c \in 1..2 : \A k \in OutsideCells : run.result[c][k] = NaN
        /\ run.pc = "aborted" =>
               /\ run.at \notin {"force_low", "nan_to_num", "write_time", "write_u", "write_v"}
               /\ run.at = "interpolate" =>
                      \E c \in 1..2 :
                          Len(run.wind_raw[c]) # Len(run.mesh.triangulation.a[1])
        /\ \A i \in 0..(run.n_steps - 1) :
               /\ run.out.wind_u[i + 1].n > 0 =>
                      \A k \in OutsideCells : run.out.wind_u[i + 1].v[1][k] = Zero
               /\ run.out.wind_v[i + 1].n > 0 =>
                      \A k \in OutsideCells : run.out.wind_v[i + 1].v[1][k] = Zero

\* C21's case: a run of two steps on a grid with cells outside the mesh and a
\* cell inside it was written and closed; the cell inside holds a value
C21_Witness ==
    /\ run.pc = "closed"
    /\ run.n_steps = 2
    /\ Written(0) = <<1, 1, 1>> /\ Written(1) = <<1, 1, 1>>
    /\ OutsideCells # {}
    /\ \E k \in 1..(Len(run.yy) * Len(run.xx)) :
           /\ k \notin OutsideCells
           /\ run.out.wind_u[2].v[1][k] # Zero
    /\ \A k \in OutsideCells :
           run.out.wind_u[2].v[1][k] = Zero /\ run.out.wind_v[2].v[1][k] = Zero

(***************************************************************************)
(* adcirc2hec_surge.main, lines 85-160                                     *)
(***************************************************************************)
\* the argument texts: a time in the form of --ras_start and --ras_end, one
\* in the form of --json_start, and one in neither
RasTime  == "19Sep2022 0600"
JsonTime == "2022-09-19 06:00:00"
Garbled  == "Sept 19th"
Absent   == "None"

\* a strptime that would accept every text
StrptimeAny(text, format) == TRUE

\* datetime.strptime(text, format) returns; it raises otherwise
Strptime(text, format) ==
    \/ format = "%d%b%Y %H%M" /\ text = RasTime
    \/ format = "%Y-%m-%d %H:%M:%S" /\ text = JsonTime

\* point files in --dir
MaxPointFiles == 2

SurgeInit ==
    /\ san = Idle
    /\ grid = Idle
    /\ rd = Idle
    /\ mesh = Idle
    /\ run = Idle
    /\ surge \in [args : [format : {"netcdf", "ras", "json"},
                          ras_hdf : {Absent, "p01.tmp.hdf"},
                          ras_start : {Absent, RasTime, JsonTime, Garbled},
                          ras_end : {Absent, RasTime, JsonTime, Garbled},
                          json_start : {Absent, RasTime, JsonTime, Garbled}],
                  files : 0..MaxPointFiles,
                  pc : {"for"}, k : {0}, message : {"none"},
                  extracts : {<<>>}, written : {{}}]

\* line 116: the next point file, or the end of main
SurgeFor ==
    /\ surge.pc = "for"
    /\ surge' = IF surge.k >= surge.files THEN [surge EXCEPT !.pc = "done"]
                ELSE [surge EXCEPT !.k = @ + 1,
                         !.pc = IF surge.args.format = "ras" THEN "ras_required"
                                ELSE IF surge.args.format = "json" THEN "json_start"
                                ELSE "extract"]
    /\ UNCHANGED <<san, grid, rd, mesh, run>>

\* lines 126-127: p.error prints the message and exits
SurgeRasRequired ==
    /\ surge.pc = "ras_required"
    /\ surge' = IF Absent \in {surge.args.ras_start, surge.args.ras_end, surge.args.ras_hdf}
                THEN [surge EXCEPT !.pc = "exited", !.message = "requires"]
                ELSE [surge EXCEPT !.pc = "ras_start"]
    /\ UNCHANGED <<san, grid, rd, mesh, run>>

\* lines 129-133
SurgeRasStart ==
    /\ surge.pc = "ras_start"
    /\ surge' = IF Strptime(surge.args.ras_start, "%d%b%Y %H%M")
                THEN [surge EXCEPT !.pc = "ras_end"]
                ELSE [surge EXCEPT !.pc = "exited", !.message = "--ras_start"]
    /\ UNCHANGED <<san, grid, rd, mesh, run>>

\* lines 135-139
SurgeRasEnd ==
    /\ surge.pc = "ras_end"
    /\ surge' = IF Strptime(surge.args.ras_end, "%d%b%Y %H%M")
                THEN [surge EXCEPT !.pc = "extract"]
                ELSE [surge EXCEPT !.pc = "exited", !.message = "--ras_end"]
    /\ UNCHANGED <<san, grid, rd, mesh, run>>

\* lines 146-152: a missing --json_start becomes the cold start, written in
\* the form that is then parsed
SurgeJsonStart ==
    /\ surge.pc = "json_start"
    /\ LET json_start == IF surge.args.json_start = Absent THEN JsonTime
                         ELSE surge.args.json_start
       IN  surge' = IF Strptime(json_start, "%Y-%m-%d %H:%M:%S")
                    THEN [surge EXCEPT !.pc = "extract", !.args.json_start = json_start]
                    ELSE [surge EXCEPT !.pc = "exited", !.message = "--start"]
    /\ UNCHANGED <<san, grid, rd, mesh, run>>

\* lines 142, 154, 159: Extract(args.file, pointFile, coldstart_utc); the
\* arguments it will be run with are kept with it
SurgeExtractNew ==
    /\ surge.pc = "extract"
    /\ surge' = [surge EXCEPT !.pc = "extractor",
                    !.extracts = Append(@, [file |-> surge.k, args |-> surge.args])]
    /\ UNCHANGED <<san, grid, rd, mesh, run>>

\* lines 143, 155, 160: extractor.extract(outputFile, ...) writes the output
\* file of the point file
SurgeExtract ==
    /\ surge.pc = "extractor"
    /\ surge' = [surge EXCEPT !.pc = "for", !.written = @ \cup {surge.k}]
    /\ UNCHANGED <<san, grid, rd, mesh, run>>

SurgeNext ==
    \/ SurgeFor \/ SurgeRasRequired \/ SurgeRasStart \/ SurgeRasEnd
    \/ SurgeJsonStart \/ SurgeExtractNew \/ SurgeExtract

\* the timestamp arguments of the format are there and well formed
SurgeArgsValid(args) ==
    CASE args.format = "ras" ->
            /\ Absent \notin {args.ras_hdf, args.ras_start, args.ras_end}
            /\ args.ras_start = RasTime /\ args.ras_end = RasTime
      [] args.format = "json" -> args.json_start = JsonTime
      [] OTHER -> TRUE

\* C16: for the ras and json formats no Extract is constructed, for any point
\* file, unless --ras_hdf, --ras_start and --ras_end are given and the two
\* times read as ddMonYYYY HHMM (ras), or --json_start reads as
\* YYYY-MM-DD HH:MM:SS (json). When the validation fails a message has been
\* printed and the program has exited with no Extract constructed and no
\* output file written; a run that ends without a message has had valid
\* arguments or no point file.
C16_ValidatedFirst ==
    /\ \A e \in 1..Len(surge.extracts) : SurgeArgsValid(surge.extracts[e].args)
    /\ surge.pc = "exited" =>
           /\ surge.message # "none"
           /\ surge.extracts = <<>> /\ surge.written = {}
           /\ surge.k = 1
    /\ surge.written \subseteq { surge.extracts[e].file : e \in 1..Len(surge.extracts) }
    /\ surge.pc = "done" =>
           /\ surge.message = "none"
           /\ surge.files = 0 \/ SurgeArgsValid(surge.args)
           /\ surge.written = 1..surge.files

\* C16's case: ras with a malformed --ras_end and two point files: exit at
\* the first point file, nothing extracted
C16_Witness ==
    /\ surge.args.format = "ras"
    /\ surge.args.ras_start = RasTime /\ surge.args.ras_end = JsonTime
    /\ surge.files = 2
    /\ surge.pc = "exited" /\ surge.message = "--ras_end"
    /\ surge.extracts = <<>> /\ surge.written = {}

(***************************************************************************)
(* Specifications                                                          *)
(***************************************************************************)
SpecSanitize == SanInit /\ [][SanNext]_vars

SpecGrid == GridInit /\ [][GridNext]_vars

SpecMesh == MeshInit /\ [][MeshNext]_vars

Spec == Init /\ [][Next]_vars

SpecSurge == SurgeInit /\ [][SurgeNext]_vars

====
